---- MODULE Spec2Model ----
(***************************************************************************)
(* Model of bankbotserver.js: the Metadefender scan gate                   *)
(* (scanFileWithMetadefender / waitForMetadefenderScan), the               *)
(* /scan-and-upload handler, and the /bankbot-stream relay.                *)
(*                                                                         *)
(* Every await of the JavaScript code is a suspension point; an action of  *)
(* the model is the code that runs from one suspension point to the next.  *)
(***************************************************************************)
EXTENDS Integers, Sequences, FiniteSets, TLC

(***************************************************************************)
(* JavaScript values                                                       *)
(***************************************************************************)
Undefined == [tag |-> "undefined"]

\* An Error object raised by fetch() (transport) or by response.json() (decoding).
ErrorValue(name) == [tag |-> "error", name |-> name]

FetchErrors == {ErrorValue("FetchError"), ErrorValue("SyntaxError")}

\* JavaScript truthiness of a string-or-undefined value.
Truthy(v) == v # "undefined" /\ v # ""

(***************************************************************************)
(* Requests and the transient upload store                                 *)
(***************************************************************************)
Requests == {"r1", "r2"}

\* multer stores each upload under a fresh random file name in tmp-uploads/.
PathOfShared(r) == <<"tmp-uploads", "upload">>

PathOf(r) == <<"tmp-uploads", r>>

\* The data_id the verdict service hands out for the submission of request r.
TicketOf(r) == IF r = "r1" THEN "id-r1" ELSE "id-r2"

(***************************************************************************)
(* The verdict service's answers                                           *)
(***************************************************************************)
ResultValues == {"undefined", "", "No Threat Detected", "In Progress", "Infected", "Suspicious"}

\* Decoded body of GET /v4/file/<id>.
PollData(id) ==
    {[tag |-> "data", data_id |-> id, scan_results |-> [present |-> FALSE, scan_all_result_a |-> "undefined"]]}
    \cup {[tag |-> "data", data_id |-> id, scan_results |-> [present |-> TRUE, scan_all_result_a |-> v]] : v \in ResultValues}

\* Decoded body of POST /v4/file: with or without a data_id.
SubmitData(r) ==
    {[tag |-> "data", data_id |-> TicketOf(r)], [tag |-> "data", data_id |-> "undefined"], [tag |-> "data", data_id |-> ""]}

\* What an awaited fetch + response.json() produces: a decoded body or a thrown error.
Replies(bodies) == bodies \cup FetchErrors

(***************************************************************************)
(* waitForMetadefenderScan                                                 *)
(***************************************************************************)
maxAttempts == 20

CleanScan == [success |-> TRUE, error |-> "undefined", details |-> Undefined]

TimeoutScan == [success |-> FALSE, error |-> "Scan timeout: No result received.", details |-> Undefined]

BlockedScan(data) == [success |-> FALSE, error |-> "undefined", details |-> data]

\* The loop condition of the poll loop.
LoopGuardOffByOne(n) == n <= maxAttempts

LoopGuard(n) == n < maxAttempts

\* The verdict branch of one poll iteration: "clean", "blocked" or "continue".
PollVerdictOnlyInfected(data) ==
    IF data.scan_results.present /\ Truthy(data.scan_results.scan_all_result_a)
    THEN IF data.scan_results.scan_all_result_a = "No Threat Detected" THEN "clean"
         ELSE IF data.scan_results.scan_all_result_a = "Infected" THEN "blocked"
         ELSE "continue"
    ELSE "continue"

PollVerdictCleanNeedsRetry(data) ==
    IF data.scan_results.present /\ Truthy(data.scan_results.scan_all_result_a)
    THEN IF data.scan_results.scan_all_result_a = "No Threat Detected" THEN "continue"
         ELSE IF data.scan_results.scan_all_result_a # "In Progress" THEN "blocked"
         ELSE "continue"
    ELSE "continue"

PollVerdict(data) ==
    IF data.scan_results.present /\ Truthy(data.scan_results.scan_all_result_a)
    THEN IF data.scan_results.scan_all_result_a = "No Threat Detected" THEN "clean"
         ELSE IF data.scan_results.scan_all_result_a # "In Progress" THEN "blocked"
         ELSE "continue"
    ELSE "continue"

(***************************************************************************)
(* scanFileWithMetadefender                                                *)
(***************************************************************************)
\* A value returned by the async function, or an exception that escaped it.
Returned(v) == [threw |-> FALSE, value |-> v]

Escaped(e) == [threw |-> TRUE, value |-> e]

HasDataIdAlways(data) == TRUE

HasDataId(data) == Truthy(data.data_id)

NoScanId(data) == [success |-> FALSE, error |-> "Failed to get scan ID", details |-> data]

\* Lines 641-647: what the scan returns for the poll loop's result.
scanOutcome(scanResult) ==
    IF scanResult.success THEN Returned([success |-> TRUE, error |-> "undefined", details |-> Undefined])
    ELSE Returned([success |-> FALSE, error |-> "File is infected!", details |-> scanResult.details])

\* Lines 649-652: the catch block around the whole body.
scanCatchRethrow(error) == Escaped(error)

scanCatch(error) == Returned([success |-> FALSE, error |-> "Error scanning file.", details |-> error])

(***************************************************************************)
(* State                                                                   *)
(***************************************************************************)
VARIABLES
    pc,            \* per request: position of the /scan-and-upload handler
    files,         \* paths that exist in tmp-uploads/
    scanId,        \* per request: data_id held by the poll loop
    attempts,      \* per request: the poll loop's counter
    queries,       \* per request: number of poll queries issued
    delays,        \* per request: number of 3 s delays started
    scanResult,    \* per request: what waitForMetadefenderScan returned
    outcome,       \* per request: what scanFileWithMetadefender returned (or threw)
    response,      \* per request: the HTTP response sent
    submitReply,   \* per request: the verdict service's reply to the submission
    terminalAt,    \* per request: index of the first poll reply that is not "no result"/"In Progress"
    terminalReply, \* per request: that reply
    unlinks,       \* per request: number of unlinkSync calls on the staged path
    unlinkFailed   \* per request: an unlinkSync call on the staged path threw

scanVars == <<pc, files, scanId, attempts, queries, delays, scanResult, outcome, response,
              submitReply, terminalAt, terminalReply, unlinks, unlinkFailed>>

\* State of the /ocr-image handler, per request.
VARIABLES
    opc,           \* position of the /ocr-image handler
    ocrReply,      \* what the awaited axios.post produced
    ocrResponse,   \* the HTTP response sent
    ocrUnlinks,    \* number of unlinkSync calls on the staged path
    ocrLateAccess  \* history: the staged path was used after it had been deleted

ocrVars == <<opc, ocrReply, ocrResponse, ocrUnlinks, ocrLateAccess>>

\* State of the OTP endpoints.
VARIABLES
    otpStore,      \* the process-wide Map: phone number -> code
    otpPc,         \* per request: position of the /send-otp handler
    otpTo,         \* per request: the number the SMS of /send-otp goes to
    otpResponse,   \* per request: the HTTP response of /send-otp
    otpCount,      \* number of OTP requests received so far
    issued,        \* history, per submitted phone number: the code the last /send-otp
                   \* submitted with it stored, 0 when none or when since replaced or used
    lastOp         \* history: the last OTP step and what it saw

otpVars == <<otpStore, otpPc, otpTo, otpResponse, otpCount, issued, lastOp>>

NoResponse == [status |-> 0, body |-> Undefined]

NotReturned == Returned(Undefined)

ScanInit(active) ==
    /\ pc = [r \in Requests |-> IF r \in active THEN "arriving" ELSE "absent"]
    /\ files = {}
    /\ scanId = [r \in Requests |-> "undefined"]
    /\ attempts = [r \in Requests |-> 0]
    /\ queries = [r \in Requests |-> 0]
    /\ delays = [r \in Requests |-> 0]
    /\ scanResult = [r \in Requests |-> Undefined]
    /\ outcome = [r \in Requests |-> NotReturned]
    /\ response = [r \in Requests |-> NoResponse]
    /\ submitReply = [r \in Requests |-> Undefined]
    /\ terminalAt = [r \in Requests |-> 0]
    /\ terminalReply = [r \in Requests |-> Undefined]
    /\ unlinks = [r \in Requests |-> 0]
    /\ unlinkFailed = [r \in Requests |-> FALSE]

\* multer found no "file" field: lines 689-692.
NoFileResponse == [status |-> 400, body |-> [error |-> "No file uploaded."]]

InternalErrorResponse == [status |-> 500, body |-> [error |-> "Internal server error."]]

SuccessResponse == [status |-> 200, body |-> [success |-> TRUE]]

(***************************************************************************)
(* app.post("/scan-and-upload"): lines 697-731, the code after the await   *)
(* of scanFileWithMetadefender.  exists is fs.existsSync(filePath),        *)
(* unlinkThrows says whether fs.unlinkSync(filePath) throws when called.   *)
(* The result names the response, whether unlinkSync was called and        *)
(* whether the file was removed.                                           *)
(***************************************************************************)
HandlerAlwaysSuccess(result, exists, unlinkThrows) ==
    [response |-> SuccessResponse, unlinkCalled |-> exists, removed |-> exists /\ ~unlinkThrows]

HandlerKeepsRejected(result, exists, unlinkThrows) ==
    IF result.threw
    THEN [response |-> InternalErrorResponse, unlinkCalled |-> FALSE, removed |-> FALSE]
    ELSE IF ~result.value.success
    THEN [response |-> [status |-> 400, body |-> result.value], unlinkCalled |-> FALSE, removed |-> FALSE]
    ELSE IF exists /\ unlinkThrows
    THEN [response |-> InternalErrorResponse, unlinkCalled |-> TRUE, removed |-> FALSE]
    ELSE [response |-> SuccessResponse, unlinkCalled |-> exists, removed |-> exists]

Handler(result, exists, unlinkThrows) ==
    IF result.threw
    THEN \* the await rethrows into the catch of lines 728-731
         [response |-> InternalErrorResponse, unlinkCalled |-> FALSE, removed |-> FALSE]
    ELSE IF ~result.value.success
    THEN \* lines 700-714: the delete is wrapped in its own try/catch
         [response |-> [status |-> 400, body |-> result.value],
          unlinkCalled |-> exists, removed |-> exists /\ ~unlinkThrows]
    ELSE IF exists /\ unlinkThrows
    THEN \* lines 719-720 throw into the catch of lines 728-731
         [response |-> InternalErrorResponse, unlinkCalled |-> TRUE, removed |-> FALSE]
    ELSE \* lines 719-726
         [response |-> SuccessResponse, unlinkCalled |-> exists, removed |-> exists]

\* scanFileWithMetadefender has settled with result; the handler runs to its response.
Finish(r, result, unlinkThrows) ==
    LET h == Handler(result, PathOf(r) \in files, unlinkThrows) IN
    /\ outcome' = [outcome EXCEPT ![r] = result]
    /\ response' = [response EXCEPT ![r] = h.response]
    /\ files' = IF h.removed THEN files \ {PathOf(r)} ELSE files
    /\ unlinks' = [unlinks EXCEPT ![r] = @ + (IF h.unlinkCalled THEN 1 ELSE 0)]
    /\ unlinkFailed' = [unlinkFailed EXCEPT ![r] = h.unlinkCalled /\ unlinkThrows]
    /\ pc' = [pc EXCEPT ![r] = "responded"]

\* Environment-side reading of a poll reply: anything but "no result" / "In Progress".
IsTerminalReply(reply) ==
    \/ reply.tag = "error"
    \/ /\ reply.tag = "data"
       /\ reply.scan_results.present
       /\ reply.scan_results.scan_all_result_a \notin {"undefined", "", "In Progress"}

\* Lines 688-692: a request without a file is answered at once.
ArriveNoFile(r) ==
    /\ pc[r] = "arriving"
    /\ pc' = [pc EXCEPT ![r] = "nofile"]
    /\ response' = [response EXCEPT ![r] = NoFileResponse]
    /\ UNCHANGED <<files, scanId, attempts, queries, delays, scanResult, outcome,
                   submitReply, terminalAt, terminalReply, unlinks, unlinkFailed>>

\* Lines 688-698 and 614-626: multer stages the file, the handler calls the scan,
\* which issues the submission request and suspends.
Arrive(r) ==
    /\ pc[r] = "arriving"
    /\ files' = files \cup {PathOf(r)}
    /\ pc' = [pc EXCEPT ![r] = "submit"]
    /\ UNCHANGED <<scanId, attempts, queries, delays, scanResult, outcome, response,
                   submitReply, terminalAt, terminalReply, unlinks, unlinkFailed>>

\* Lines 619-639 and 656-668: the submission settles; without a data_id the scan
\* returns, otherwise the poll loop starts and issues its first query.
SubmitSettles(r) ==
    /\ pc[r] = "submit"
    /\ \E reply \in Replies(SubmitData(r)), unlinkThrows \in BOOLEAN :
          /\ submitReply' = [submitReply EXCEPT ![r] = reply]
          /\ IF reply.tag = "error"
             THEN /\ Finish(r, scanCatch(reply), unlinkThrows)
                  /\ UNCHANGED <<scanId, attempts, queries, delays, scanResult>>
             ELSE IF ~HasDataId(reply)
             THEN /\ Finish(r, Returned(NoScanId(reply)), unlinkThrows)
                  /\ UNCHANGED <<scanId, attempts, queries, delays, scanResult>>
             ELSE /\ scanId' = [scanId EXCEPT ![r] = reply.data_id]
                  /\ attempts' = [attempts EXCEPT ![r] = 0]
                  /\ IF LoopGuard(0)
                     THEN /\ queries' = [queries EXCEPT ![r] = @ + 1]
                          /\ pc' = [pc EXCEPT ![r] = "poll"]
                          /\ UNCHANGED <<scanResult, outcome, response, files, unlinks, unlinkFailed>>
                     ELSE /\ scanResult' = [scanResult EXCEPT ![r] = TimeoutScan]
                          /\ Finish(r, scanOutcome(TimeoutScan), unlinkThrows)
                          /\ UNCHANGED queries
                  /\ UNCHANGED delays
    /\ UNCHANGED <<terminalAt, terminalReply>>

PollSettlesRetriesOnError(r) ==
    /\ pc[r] = "poll"
    /\ \E reply \in Replies(PollData(scanId[r])), unlinkThrows \in BOOLEAN :
          /\ IF terminalAt[r] = 0 /\ IsTerminalReply(reply)
             THEN /\ terminalAt' = [terminalAt EXCEPT ![r] = queries[r]]
                  /\ terminalReply' = [terminalReply EXCEPT ![r] = reply]
             ELSE UNCHANGED <<terminalAt, terminalReply>>
          /\ IF reply.tag # "error" /\ PollVerdict(reply) = "clean"
             THEN /\ scanResult' = [scanResult EXCEPT ![r] = CleanScan]
                  /\ Finish(r, scanOutcome(CleanScan), unlinkThrows)
                  /\ UNCHANGED delays
             ELSE IF reply.tag # "error" /\ PollVerdict(reply) = "blocked"
             THEN /\ scanResult' = [scanResult EXCEPT ![r] = BlockedScan(reply)]
                  /\ Finish(r, scanOutcome(BlockedScan(reply)), unlinkThrows)
                  /\ UNCHANGED delays
             ELSE /\ delays' = [delays EXCEPT ![r] = @ + 1]
                  /\ pc' = [pc EXCEPT ![r] = "delay"]
                  /\ UNCHANGED <<scanResult, outcome, response, files, unlinks, unlinkFailed>>
    /\ UNCHANGED <<scanId, attempts, queries, submitReply>>

\* Lines 665-681: a poll query settles; the loop returns, or starts the 3 s delay.
PollSettles(r) ==
    /\ pc[r] = "poll"
    /\ \E reply \in Replies(PollData(scanId[r])), unlinkThrows \in BOOLEAN :
          /\ IF terminalAt[r] = 0 /\ IsTerminalReply(reply)
             THEN /\ terminalAt' = [terminalAt EXCEPT ![r] = queries[r]]
                  /\ terminalReply' = [terminalReply EXCEPT ![r] = reply]
             ELSE UNCHANGED <<terminalAt, terminalReply>>
          /\ IF reply.tag = "error"
             THEN /\ Finish(r, scanCatch(reply), unlinkThrows)
                  /\ UNCHANGED <<delays, scanResult>>
             ELSE IF PollVerdict(reply) = "clean"
             THEN /\ scanResult' = [scanResult EXCEPT ![r] = CleanScan]
                  /\ Finish(r, scanOutcome(CleanScan), unlinkThrows)
                  /\ UNCHANGED delays
             ELSE IF PollVerdict(reply) = "blocked"
             THEN /\ scanResult' = [scanResult EXCEPT ![r] = BlockedScan(reply)]
                  /\ Finish(r, scanOutcome(BlockedScan(reply)), unlinkThrows)
                  /\ UNCHANGED delays
             ELSE /\ delays' = [delays EXCEPT ![r] = @ + 1]
                  /\ pc' = [pc EXCEPT ![r] = "delay"]
                  /\ UNCHANGED <<scanResult, outcome, response, files, unlinks, unlinkFailed>>
    /\ UNCHANGED <<scanId, attempts, queries, submitReply>>

\* Lines 681-685 and 662-668: the delay elapses, attempts++, and the loop either
\* issues the next query or runs out of attempts.
DelayElapses(r) ==
    /\ pc[r] = "delay"
    /\ attempts' = [attempts EXCEPT ![r] = @ + 1]
    /\ IF LoopGuard(attempts[r] + 1)
       THEN /\ queries' = [queries EXCEPT ![r] = @ + 1]
            /\ pc' = [pc EXCEPT ![r] = "poll"]
            /\ UNCHANGED <<scanResult, outcome, response, files, unlinks, unlinkFailed>>
       ELSE /\ \E unlinkThrows \in BOOLEAN :
                 /\ scanResult' = [scanResult EXCEPT ![r] = TimeoutScan]
                 /\ Finish(r, scanOutcome(TimeoutScan), unlinkThrows)
            /\ UNCHANGED queries
    /\ UNCHANGED <<scanId, delays, submitReply, terminalAt, terminalReply>>

(***************************************************************************)
(* app.post("/bankbot-stream"): the streaming relay                         *)
(*                                                                         *)
(* The upstream body is a sequence of bytes.  One-byte characters are      *)
(* written as themselves; "e1" "e2" are the two bytes of one two-byte      *)
(* UTF-8 character, written "e" once decoded.  "data:" and "[DONE]" stand  *)
(* for those runs of characters, "<" ... ">" for the JSON text             *)
(* {"choices":[{"delta":{"content":"..."}}]} around the content.           *)
(***************************************************************************)
Newline == "\n"

Whitespace == {" ", "\r", "\t", Newline}

Replacement == "U+FFFD"

ContentChars == {"a", "b", "e", Replacement}

\* TextDecoder("utf-8").decode(value, {stream: true}), line 254: pending is the
\* incomplete byte sequence the decoder holds between calls.
RECURSIVE DecodeBytes(_, _)
DecodeBytes(pending, bytes) ==
    IF bytes = <<>> THEN [text |-> <<>>, pending |-> pending]
    ELSE LET b == Head(bytes)
             rest == Tail(bytes) IN
         IF pending # <<>>
         THEN IF b = "e2"
              THEN LET d == DecodeBytes(<<>>, rest) IN [d EXCEPT !.text = <<"e">> \o @]
              ELSE LET d == DecodeBytes(<<>>, bytes) IN [d EXCEPT !.text = <<Replacement>> \o @]
         ELSE IF b = "e1" THEN DecodeBytes(<<"e1">>, rest)
         ELSE IF b = "e2"
              THEN LET d == DecodeBytes(<<>>, rest) IN [d EXCEPT !.text = <<Replacement>> \o @]
              ELSE LET d == DecodeBytes(<<>>, rest) IN [d EXCEPT !.text = <<b>> \o @]

\* decode(value) without {stream: true}: an incomplete sequence at the end of
\* the chunk is replaced, nothing is held back.
DecodeNoStream(pending, bytes) ==
    LET d == DecodeBytes(<<>>, bytes) IN
    [text |-> d.text \o (IF d.pending = <<>> THEN <<>> ELSE <<Replacement>>), pending |-> <<>>]

Decode(pending, bytes) == DecodeBytes(pending, bytes)

\* String.prototype.split("\n"), line 255: always at least one piece.
RECURSIVE Split(_)
Split(text) ==
    IF \A i \in 1..Len(text) : text[i] # Newline THEN <<text>>
    ELSE LET i == CHOOSE j \in 1..Len(text) :
                      text[j] = Newline /\ \A k \in 1..(j - 1) : text[k] # Newline IN
         <<SubSeq(text, 1, i - 1)>> \o Split(SubSeq(text, i + 1, Len(text)))

\* lines.pop(), line 256: the last piece is kept as the new buffer.
RetainNothing(pieces) == <<>>

Retain(pieces) == pieces[Len(pieces)]

CompleteLines(pieces) == SubSeq(pieces, 1, Len(pieces) - 1)

\* String.prototype.trim(), line 258.
RECURSIVE TrimLeft(_)
TrimLeft(text) ==
    IF text # <<>> /\ Head(text) \in Whitespace THEN TrimLeft(Tail(text)) ELSE text

RECURSIVE TrimRight(_)
TrimRight(text) ==
    IF text # <<>> /\ text[Len(text)] \in Whitespace
    THEN TrimRight(SubSeq(text, 1, Len(text) - 1)) ELSE text

Trim(text) == TrimRight(TrimLeft(text))

DataPrefix == <<"data:", " ">>

Sentinel == <<"data:", " ", "[DONE]">>

StartsWith(text, prefix) ==
    Len(text) >= Len(prefix) /\ SubSeq(text, 1, Len(prefix)) = prefix

\* JSON.parse and the delta lookup of lines 267-269: the content to forward,
\* or no content (parse error, no choices, no delta, empty content).
JsonContent(payload) ==
    LET t == Trim(payload) IN
    IF /\ Len(t) >= 2
       /\ t[1] = "<"
       /\ t[Len(t)] = ">"
       /\ \A i \in 2..(Len(t) - 1) : t[i] \in ContentChars
    THEN [parsed |-> TRUE, content |-> SubSeq(t, 2, Len(t) - 1)]
    ELSE [parsed |-> FALSE, content |-> <<>>]

\* What one complete line makes the relay do: lines 258-275.
LineEffect(line) ==
    LET trimmed == Trim(line) IN
    IF trimmed = <<>> THEN [kind |-> "skip", text |-> <<>>]
    ELSE IF trimmed = Sentinel THEN [kind |-> "Done", text |-> <<>>]
    ELSE IF StartsWith(trimmed, DataPrefix)
    THEN LET j == JsonContent(SubSeq(trimmed, Len(DataPrefix) + 1, Len(trimmed))) IN
         IF j.parsed /\ j.content # <<>> THEN [kind |-> "Token", text |-> j.content]
         ELSE [kind |-> "skip", text |-> <<>>]
    ELSE [kind |-> "skip", text |-> <<>>]

\* The order in which the for loop of line 257 visits the lines.
Reversed(lines) == [i \in 1..Len(lines) |-> lines[Len(lines) + 1 - i]]

InOrder(lines) == lines

\* Each complete line with its index in the upstream stream.
Numbered(lines, base) == [i \in 1..Len(lines) |-> [text |-> lines[i], line |-> base + i]]

\* A data line whose payload JSON.parse rejects.
IsMalformed(line) ==
    /\ StartsWith(Trim(line), DataPrefix)
    /\ Trim(line) # Sentinel
    /\ ~JsonContent(SubSeq(Trim(line), Len(DataPrefix) + 1, Len(Trim(line)))).parsed

\* The loop without the inner try/catch: a payload that fails to parse throws
\* into the outer catch, which writes the error frame and ends the response.
RECURSIVE ProcessLinesAbortOnMalformed(_)
ProcessLinesAbortOnMalformed(numbered) ==
    IF numbered = <<>> THEN [frames |-> <<>>, ended |-> FALSE]
    ELSE LET e == LineEffect(Head(numbered).text) IN
         IF IsMalformed(Head(numbered).text)
         THEN [frames |-> <<[kind |-> "Error", text |-> <<>>, line |-> 0]>>, ended |-> TRUE]
         ELSE IF e.kind = "Done"
         THEN [frames |-> <<[kind |-> "Done", text |-> <<>>, line |-> Head(numbered).line]>>,
               ended |-> TRUE]
         ELSE LET rest == ProcessLinesAbortOnMalformed(Tail(numbered)) IN
              IF e.kind = "Token"
              THEN [rest EXCEPT !.frames =
                        <<[kind |-> "Token", text |-> e.text, line |-> Head(numbered).line]>> \o @]
              ELSE rest

\* The loop without the return of line 263: the lines after the sentinel are
\* handled like the others.
RECURSIVE ProcessLinesNoReturn(_)
ProcessLinesNoReturn(numbered) ==
    IF numbered = <<>> THEN [frames |-> <<>>, ended |-> FALSE]
    ELSE LET e == LineEffect(Head(numbered).text)
             rest == ProcessLinesNoReturn(Tail(numbered)) IN
         IF e.kind = "Done"
         THEN [frames |-> <<[kind |-> "Done", text |-> <<>>, line |-> Head(numbered).line]>> \o rest.frames,
               ended |-> TRUE]
         ELSE IF e.kind = "Token"
         THEN [rest EXCEPT !.frames =
                   <<[kind |-> "Token", text |-> e.text, line |-> Head(numbered).line]>> \o @]
         ELSE rest

\* The for loop of lines 257-276 over the numbered lines: the frames written,
\* and whether the sentinel ended the relay.
RECURSIVE ProcessLines(_)
ProcessLines(numbered) ==
    IF numbered = <<>> THEN [frames |-> <<>>, ended |-> FALSE]
    ELSE LET e == LineEffect(Head(numbered).text) IN
         IF e.kind = "Done"
         THEN [frames |-> <<[kind |-> "Done", text |-> <<>>, line |-> Head(numbered).line]>>,
               ended |-> TRUE]
         ELSE LET rest == ProcessLines(Tail(numbered)) IN
              IF e.kind = "Token"
              THEN [rest EXCEPT !.frames =
                        <<[kind |-> "Token", text |-> e.text, line |-> Head(numbered).line]>> \o @]
              ELSE rest

\* The return of line 263: after the sentinel the handler is over, otherwise
\* the while loop issues the next reader.read().
AfterChunkKeepsReading(p) == "reading"

AfterChunk(p) == IF p.ended THEN "closed" ELSE "reading"

HasToken(frames) == \E i \in DOMAIN frames : frames[i].kind = "Token"

ErrorFrame == [kind |-> "Error", text |-> <<>>, line |-> 0]

VARIABLES
    rpc,         \* position of the /bankbot-stream handler
    upstream,    \* the bytes the OpenAI response body will deliver
    pos,         \* number of upstream bytes delivered so far
    decoder,     \* bytes the TextDecoder holds back
    buffer,      \* the handler's buffer variable
    written,     \* frames written to the client with res.write
    ended,       \* res.end() has been called
    linesRead,   \* number of complete upstream lines the loop has taken
    fragmented,  \* history: some chunk ended inside a line that had begun
    spread,      \* history: Tokens were written while handling different chunks
    cause,       \* history: how the upstream finished: "sentinel", "eof" or "failure"
    clientGone,  \* the client has closed its end of the event stream
    lateWrites   \* history: number of res.write calls made after the client had gone

relayVars == <<rpc, upstream, pos, decoder, buffer, written, ended, linesRead, fragmented, spread,
               cause, clientGone, lateWrites>>

(***************************************************************************)
(* Upstream streams: up to MaxLines event lines, each followed by a        *)
(* newline, the last one possibly not.                                     *)
(***************************************************************************)
MaxLines == 3

EventLines ==
    { <<"data:", " ", "<", "a", ">">>,
      <<" ", "data:", " ", "<", "e1", "e2", "b", ">", "\r">>,
      <<"data:", " ", "<", ">">>,
      <<"data:", " ", "<", "b">>,
      <<"data:", " ", "[DONE]">>,
      <<>> }

RECURSIVE Join(_)
Join(lines) ==
    IF lines = <<>> THEN <<>> ELSE Head(lines) \o <<Newline>> \o Join(Tail(lines))

LineSeqs == UNION {[1..n -> EventLines] : n \in 0..MaxLines}

Streams ==
    {Join(ls) : ls \in LineSeqs}
    \cup {SubSeq(Join(ls), 1, Len(Join(ls)) - 1) : ls \in LineSeqs \ {<<>>}}

\* The streams of at most MaxFairLines event lines.
MaxFairLines == 1

FairStreams ==
    {st \in Streams :
        Cardinality({i \in DOMAIN st : st[i] = Newline})
          + (IF st # <<>> /\ st[Len(st)] # Newline THEN 1 ELSE 0) <= MaxFairLines}

RelayIdle ==
    /\ rpc = "idle"
    /\ upstream = <<>>
    /\ pos = 0
    /\ decoder = <<>>
    /\ buffer = <<>>
    /\ written = <<>>
    /\ ended = FALSE
    /\ linesRead = 0
    /\ fragmented = FALSE
    /\ spread = FALSE
    /\ cause = "none"
    /\ clientGone = FALSE
    /\ lateWrites = 0

RelayInit ==
    /\ rpc = "arriving"
    /\ upstream \in Streams
    /\ pos = 0
    /\ decoder = <<>>
    /\ buffer = <<>>
    /\ written = <<>>
    /\ ended = FALSE
    /\ linesRead = 0
    /\ fragmented = FALSE
    /\ spread = FALSE
    /\ cause = "none"
    /\ clientGone = FALSE
    /\ lateWrites = 0

\* Lines 212-215: no message, a 400 JSON response and no event stream.
RelayNoMessage ==
    /\ rpc = "arriving"
    /\ rpc' = "rejected"
    /\ UNCHANGED <<upstream, pos, decoder, buffer, written, ended, linesRead, fragmented, spread,
                   cause, clientGone, lateWrites>>
    /\ UNCHANGED <<scanVars, ocrVars, otpVars>>

\* Lines 216-240: the event-stream headers are flushed and the upstream request starts.
RelayArrive ==
    /\ rpc = "arriving"
    /\ rpc' = "fetching"
    /\ UNCHANGED <<upstream, pos, decoder, buffer, written, ended, linesRead, fragmented, spread,
                   cause, clientGone, lateWrites>>
    /\ UNCHANGED <<scanVars, ocrVars, otpVars>>

\* Lines 242-252: the upstream answers with a success status and the first read starts.
UpstreamOk ==
    /\ rpc = "fetching"
    /\ rpc' = "reading"
    /\ buffer' = <<>>
    /\ decoder' = <<>>
    /\ UNCHANGED <<upstream, pos, written, ended, linesRead, fragmented, spread,
                   cause, clientGone, lateWrites>>
    /\ UNCHANGED <<scanVars, ocrVars, otpVars>>

\* Lines 224-245 and 279-283: the request fails or has a non-success status.
UpstreamFails ==
    /\ rpc = "fetching"
    /\ written' = Append(written, ErrorFrame)
    /\ ended' = TRUE
    /\ rpc' = "closed"
    /\ cause' = "failure"
    /\ lateWrites' = lateWrites + (IF clientGone THEN 1 ELSE 0)
    /\ UNCHANGED <<upstream, pos, decoder, buffer, linesRead, fragmented, spread, clientGone>>
    /\ UNCHANGED <<scanVars, ocrVars, otpVars>>

\* Lines 252-277: reader.read() delivers the next n bytes.
ReadChunk ==
    /\ rpc = "reading"
    /\ \E n \in 1..(Len(upstream) - pos) :
       /\ pos' = pos + n
       /\ \E d \in {Decode(decoder, SubSeq(upstream, pos + 1, pos + n))} :
          \E pieces \in {Split(buffer \o d.text)} :
          \E p \in {ProcessLines(InOrder(Numbered(CompleteLines(pieces), linesRead)))} :
          /\ decoder' = d.pending
          /\ buffer' = Retain(pieces)
          /\ linesRead' = linesRead + Len(pieces) - 1
          /\ written' = written \o p.frames
          /\ ended' = p.ended
          /\ rpc' = AfterChunk(p)
          /\ cause' = IF p.ended THEN "sentinel" ELSE cause
          /\ lateWrites' = lateWrites + (IF clientGone THEN Len(p.frames) ELSE 0)
          /\ fragmented' = (fragmented \/ pieces[Len(pieces)] # <<>> \/ d.pending # <<>>)
          /\ spread' = (spread \/ (HasToken(written) /\ HasToken(p.frames)))
    /\ UNCHANGED <<upstream, clientGone>>
    /\ UNCHANGED <<scanVars, ocrVars, otpVars>>

\* The end of the stream without the res.end() of line 278.
ReadDoneNoEnd ==
    /\ rpc = "reading"
    /\ pos = Len(upstream)
    /\ rpc' = "drained"
    /\ cause' = "eof"
    /\ UNCHANGED <<upstream, pos, decoder, buffer, written, ended, linesRead, fragmented, spread,
                   clientGone, lateWrites>>
    /\ UNCHANGED <<scanVars, ocrVars, otpVars>>

\* Lines 252-253 and 278: reader.read() reports the end of the stream.
ReadDone ==
    /\ rpc = "reading"
    /\ pos = Len(upstream)
    /\ ended' = TRUE
    /\ rpc' = "closed"
    /\ cause' = "eof"
    /\ UNCHANGED <<upstream, pos, decoder, buffer, written, linesRead, fragmented, spread,
                   clientGone, lateWrites>>
    /\ UNCHANGED <<scanVars, ocrVars, otpVars>>

\* Lines 252 and 279-283: reader.read() rejects in mid-stream.
ReadFails ==
    /\ rpc = "reading"
    /\ written' = Append(written, ErrorFrame)
    /\ ended' = TRUE
    /\ rpc' = "closed"
    /\ cause' = "failure"
    /\ lateWrites' = lateWrites + (IF clientGone THEN 1 ELSE 0)
    /\ UNCHANGED <<upstream, pos, decoder, buffer, linesRead, fragmented, spread, clientGone>>
    /\ UNCHANGED <<scanVars, ocrVars, otpVars>>

\* The client closes the connection while the relay is at a suspension point.
\* The handler registers no close listener and never looks at the state of res.
ClientDisconnects ==
    /\ rpc \in {"fetching", "reading"}
    /\ ~clientGone
    /\ clientGone' = TRUE
    /\ UNCHANGED <<rpc, upstream, pos, decoder, buffer, written, ended, linesRead, fragmented, spread,
                   cause, lateWrites>>
    /\ UNCHANGED <<scanVars, ocrVars, otpVars>>

RelayNext ==
    \/ RelayNoMessage
    \/ RelayArrive
    \/ UpstreamOk
    \/ UpstreamFails
    \/ ReadChunk
    \/ ReadDone
    \/ ReadFails

RelayCancelNext ==
    \/ RelayNoMessage
    \/ RelayArrive
    \/ UpstreamOk
    \/ UpstreamFails
    \/ ReadChunk
    \/ ReadDone
    \/ ReadFails
    \/ ClientDisconnects

(***************************************************************************)
(* app.post("/ocr-image")                                                  *)
(***************************************************************************)
\* response.data?.ParsedResults?.[0]?.ParsedText of the OCR.space answer: absent,
\* a string (a sequence of characters), or a JSON value of another type.
ParsedTexts ==
    {[type |-> "undefined", chars |-> <<>>],
     [type |-> "string", chars |-> <<>>],
     [type |-> "string", chars |-> <<"a", "b">>],
     [type |-> "string", chars |-> <<" ", "a", Newline>>],
     [type |-> "number", chars |-> <<>>]}

\* What the awaited axios.post produces: a 2xx answer, or a rejection
\* (transport error or non-2xx status).
OcrReplies == {[tag |-> "data", ParsedText |-> t] : t \in ParsedTexts} \cup {ErrorValue("AxiosError")}

OcrTruthy(t) == t.type = "number" \/ (t.type = "string" /\ t.chars # <<>>)

OcrNoFileResponse == [status |-> 400, body |-> [success |-> FALSE, error |-> "No file uploaded."]]

OcrNoTextResponse == [status |-> 500, body |-> [success |-> FALSE, error |-> "OCR failed or returned no text."]]

OcrFailedResponse == [status |-> 500, body |-> [success |-> FALSE, error |-> "Failed to extract text."]]

OcrTextResponse(t) == [status |-> 200, body |-> [success |-> TRUE, text |-> Trim(t.chars)]]

\* What Express makes of a rejection of the async handler: version 4 leaves the
\* request unanswered, version 5 passes it to the default error handler.
ExpressDefaultError == [status |-> 500, body |-> [error |-> "express default error handler"]]

\* Lines 786-790, the catch block: calls so far, whether the path still exists,
\* whether this request has deleted it, whether the unlinkSync of line 788
\* fails for a reason of its own.
OcrCatch(calls, exists, deleted, unlinkThrows) ==
    IF ~exists \/ unlinkThrows
    THEN \* unlinkSync throws inside the catch block: the handler's promise rejects
         [response |-> NoResponse, escaped |-> TRUE, unlinkCalls |-> calls + 1,
          removed |-> deleted, lateAccess |-> deleted]
    ELSE [response |-> OcrFailedResponse, escaped |-> FALSE, unlinkCalls |-> calls + 1,
          removed |-> TRUE, lateAccess |-> deleted]

\* Lines 776-790: the code after the await of axios.post.
OcrHandler(reply, exists, unlinkThrows, catchUnlinkThrows) ==
    IF reply.tag = "error"
    THEN OcrCatch(0, exists, FALSE, catchUnlinkThrows)
    ELSE IF ~exists \/ unlinkThrows
    THEN \* line 776 throws
         OcrCatch(1, exists, FALSE, catchUnlinkThrows)
    ELSE IF OcrTruthy(reply.ParsedText)
    THEN IF reply.ParsedText.type = "string"
         THEN [response |-> OcrTextResponse(reply.ParsedText), escaped |-> FALSE,
               unlinkCalls |-> 1, removed |-> TRUE, lateAccess |-> FALSE]
         ELSE \* parsedResult.trim is not a function: line 780 throws after the delete
              OcrCatch(1, FALSE, TRUE, catchUnlinkThrows)
    ELSE [response |-> OcrNoTextResponse, escaped |-> FALSE,
          unlinkCalls |-> 1, removed |-> TRUE, lateAccess |-> FALSE]

OcrIdle ==
    /\ opc = [r \in Requests |-> "absent"]
    /\ ocrReply = [r \in Requests |-> Undefined]
    /\ ocrResponse = [r \in Requests |-> NoResponse]
    /\ ocrUnlinks = [r \in Requests |-> 0]
    /\ ocrLateAccess = [r \in Requests |-> FALSE]

OcrInit ==
    /\ opc = [r \in Requests |-> "arriving"]
    /\ ocrReply = [r \in Requests |-> Undefined]
    /\ ocrResponse = [r \in Requests |-> NoResponse]
    /\ ocrUnlinks = [r \in Requests |-> 0]
    /\ ocrLateAccess = [r \in Requests |-> FALSE]

\* Lines 753-756: a request without a file.
OcrArriveNoFile(r) ==
    /\ opc[r] = "arriving"
    /\ opc' = [opc EXCEPT ![r] = "nofile"]
    /\ ocrResponse' = [ocrResponse EXCEPT ![r] = OcrNoFileResponse]
    /\ UNCHANGED <<ocrReply, ocrUnlinks, ocrLateAccess>>
    /\ UNCHANGED <<scanVars, relayVars, otpVars>>

\* Lines 753-774: multer stages the file and the extraction request is issued.
OcrArrive(r) ==
    /\ opc[r] = "arriving"
    /\ opc' = [opc EXCEPT ![r] = "extracting"]
    /\ files' = files \cup {PathOf(r)}
    /\ UNCHANGED <<ocrReply, ocrResponse, ocrUnlinks, ocrLateAccess>>
    /\ UNCHANGED <<pc, scanId, attempts, queries, delays, scanResult, outcome, response,
                   submitReply, terminalAt, terminalReply, unlinks, unlinkFailed>>
    /\ UNCHANGED <<relayVars, otpVars>>

\* Lines 769-790: the extraction request settles and the handler runs to its end.
OcrSettles(r) ==
    /\ opc[r] = "extracting"
    /\ \E reply \in OcrReplies, unlinkThrows \in BOOLEAN, catchUnlinkThrows \in BOOLEAN,
          express5 \in BOOLEAN :
          LET h == OcrHandler(reply, PathOf(r) \in files, unlinkThrows, catchUnlinkThrows) IN
          /\ ocrReply' = [ocrReply EXCEPT ![r] = reply]
          /\ ocrUnlinks' = [ocrUnlinks EXCEPT ![r] = h.unlinkCalls]
          /\ ocrLateAccess' = [ocrLateAccess EXCEPT ![r] = h.lateAccess]
          /\ files' = IF h.removed THEN files \ {PathOf(r)} ELSE files
          /\ ocrResponse' = [ocrResponse EXCEPT ![r] =
                                IF h.escaped /\ express5 THEN ExpressDefaultError ELSE h.response]
          /\ opc' = [opc EXCEPT ![r] = IF h.escaped THEN "rejected" ELSE "responded"]
    /\ UNCHANGED <<pc, scanId, attempts, queries, delays, scanResult, outcome, response,
                   submitReply, terminalAt, terminalReply, unlinks, unlinkFailed>>
    /\ UNCHANGED <<relayVars, otpVars>>

OcrNext ==
    \/ \E r \in Requests : OcrArriveNoFile(r)
    \/ \E r \in Requests : OcrArrive(r)
    \/ \E r \in Requests : OcrSettles(r)

(***************************************************************************)
(* app.post("/send-otp") and app.post("/verify-otp")                       *)
(*                                                                         *)
(* Strings are sequences of characters.                                    *)
(***************************************************************************)
DigitChars == <<"0", "1", "2", "3", "4", "5", "6", "7", "8", "9">>

IsDigit(ch) == \E i \in 1..10 : DigitChars[i] = ch

DigitValue(ch) == (CHOOSE i \in 1..10 : DigitChars[i] = ch) - 1

\* The decimal text of a non-negative integer, as a client types the code.
RECURSIVE Decimal(_)
Decimal(n) ==
    IF n < 10 THEN <<DigitChars[n + 1]>>
    ELSE Decimal(n \div 10) \o <<DigitChars[(n % 10) + 1]>>

NaN == -1

\* The value of the leading run of digits of text, NaN when there is none.
RECURSIVE ParseDigits(_, _, _)
ParseDigits(text, acc, any) ==
    IF text # <<>> /\ IsDigit(Head(text))
    THEN ParseDigits(Tail(text), acc * 10 + DigitValue(Head(text)), TRUE)
    ELSE IF any THEN acc ELSE NaN

\* parseInt(otp), line 199: of a number, and of a string after its leading
\* whitespace (strings with a sign or a radix prefix are not among the inputs).
ParseInt(otp) ==
    IF otp.type = "number" THEN otp.n
    ELSE IF otp.type = "string" THEN ParseDigits(TrimLeft(otp.chars), 0, FALSE)
    ELSE NaN

\* JavaScript falsiness of a field of the JSON body.
Falsy(v) ==
    \/ v.type = "undefined"
    \/ v.type = "string" /\ v.chars = <<>>
    \/ v.type = "number" /\ v.n = 0

JsString(chars) == [type |-> "string", chars |-> chars, n |-> 0]

JsNumber(n) == [type |-> "number", chars |-> <<>>, n |-> n]

JsUndefined == [type |-> "undefined", chars |-> <<>>, n |-> 0]

\* Math.floor(100000 + Math.random() * 900000), line 135, for the random
\* number k / RandomGrain.
RandomGrain == 2

OtpBase == 100000

OtpSpan == 900000

GenerateOtp(k) == OtpBase + ((k * OtpSpan) \div RandomGrain)

OtpCodes == {GenerateOtp(k) : k \in 0..(RandomGrain - 1)}

\* Phone numbers as clients submit them: national and international form of
\* one UK number, a number of another country, and the empty string.
Phones ==
    {<<"0", "7", "1">>, <<"+", "4", "4", "7", "1">>, <<"+", "1", "5">>, <<>>}

\* Lines 130-133: a number starting with "07" is rewritten to "+44" + slice(1).
NormalizePhone(phoneNumber) ==
    IF StartsWith(phoneNumber, <<"0", "7">>)
    THEN <<"+", "4", "4">> \o Tail(phoneNumber)
    ELSE phoneNumber

\* The otp field of a /verify-otp body: a code as a number or as text, text
\* with something around the digits, text without digits, or nothing.
ClientOtps ==
    {JsNumber(c) : c \in OtpCodes}
    \cup {JsString(Decimal(c)) : c \in OtpCodes}
    \cup {JsString(<<" ">> \o Decimal(OtpBase) \o <<"x">>), JsString(<<"x">>), JsString(<<>>), JsUndefined}

\* The forms in which a client sends back the code it was given.
SameCode(code) == {JsNumber(code), JsString(Decimal(code))}

\* The phoneNumber field of a /verify-otp body.
BodyPhones == {JsString(ph) : ph \in Phones} \cup {JsUndefined}

MaxOtpRequests == 3

OtpSentResponse == [status |-> 200, body |-> [success |-> TRUE, message |-> "OTP sent successfully."]]

OtpSendFailedResponse == [status |-> 500, body |-> [error |-> "Failed to send OTP."]]

OtpRequiredResponse == [status |-> 400, body |-> [error |-> "Phone number and OTP are required."]]

OtpNotFoundResponse == [status |-> 200, body |-> [verified |-> FALSE, message |-> "OTP expired or not found."]]

OtpInvalidResponse == [status |-> 200, body |-> [verified |-> FALSE, message |-> "Invalid OTP."]]

OtpVerifiedResponse == [status |-> 200, body |-> [verified |-> TRUE, message |-> "OTP verified successfully."]]

\* otpStore.get(key): the stored code, 0 for undefined.
OtpGet(store, key) == IF key \in DOMAIN store THEN store[key] ELSE 0

\* otpStore.set(key, code).
OtpSet(store, key, code) == [k \in DOMAIN store \cup {key} |-> IF k = key THEN code ELSE store[k]]

\* otpStore.delete(key).
OtpDelete(store, key) == [k \in DOMAIN store \ {key} |-> store[k]]

\* Lines 188-206: the /verify-otp handler; the response and the store it leaves.
VerifyOtpKeepsCode(store, phoneNumber, otp) ==
    IF Falsy(phoneNumber) \/ Falsy(otp)
    THEN [response |-> OtpRequiredResponse, store |-> store]
    ELSE IF OtpGet(store, phoneNumber.chars) = 0
    THEN [response |-> OtpNotFoundResponse, store |-> store]
    ELSE IF ParseInt(otp) # OtpGet(store, phoneNumber.chars)
    THEN [response |-> OtpInvalidResponse, store |-> store]
    ELSE [response |-> OtpVerifiedResponse, store |-> store]

VerifyOtpHandler(store, phoneNumber, otp) ==
    IF Falsy(phoneNumber) \/ Falsy(otp)
    THEN [response |-> OtpRequiredResponse, store |-> store]
    ELSE IF OtpGet(store, phoneNumber.chars) = 0
    THEN [response |-> OtpNotFoundResponse, store |-> store]
    ELSE IF ParseInt(otp) # OtpGet(store, phoneNumber.chars)
    THEN [response |-> OtpInvalidResponse, store |-> store]
    ELSE [response |-> OtpVerifiedResponse, store |-> OtpDelete(store, phoneNumber.chars)]

OtpIdle ==
    /\ otpStore = <<>>
    /\ otpPc = [r \in Requests |-> "idle"]
    /\ otpTo = [r \in Requests |-> <<>>]
    /\ otpResponse = [r \in Requests |-> NoResponse]
    /\ otpCount = 0
    /\ issued = [ph \in Phones |-> 0]
    /\ lastOp = [op |-> "none"]

\* Lines 127-143: /send-otp normalises the number, stores a fresh code and
\* starts the SMS.
SendOtp(r) ==
    /\ otpPc[r] = "idle"
    /\ otpCount < MaxOtpRequests
    /\ \E phoneNumber \in Phones, k \in 0..(RandomGrain - 1) :
          LET key == NormalizePhone(phoneNumber)
              otp == GenerateOtp(k) IN
          /\ otpStore' = OtpSet(otpStore, key, otp)
          /\ otpTo' = [otpTo EXCEPT ![r] = key]
          /\ issued' = [ph \in Phones |->
                           IF ph = phoneNumber THEN otp
                           ELSE IF NormalizePhone(ph) = key THEN 0
                           ELSE issued[ph]]
          /\ lastOp' = [op |-> "send", key |-> key]
    /\ otpPc' = [otpPc EXCEPT ![r] = "sms"]
    /\ otpResponse' = [otpResponse EXCEPT ![r] = NoResponse]
    /\ otpCount' = otpCount + 1
    /\ UNCHANGED <<scanVars, relayVars, ocrVars>>

\* Lines 128-131: a body without phoneNumber makes startsWith throw before the
\* try block; the handler's promise rejects with nothing stored.
SendOtpNoPhone(r) ==
    /\ otpPc[r] = "idle"
    /\ otpCount < MaxOtpRequests
    /\ otpCount' = otpCount + 1
    /\ otpResponse' = [otpResponse EXCEPT ![r] = NoResponse]
    /\ lastOp' = [op |-> "send-rejected"]
    /\ UNCHANGED <<otpStore, otpPc, otpTo, issued>>
    /\ UNCHANGED <<scanVars, relayVars, ocrVars>>

\* Lines 138-150: the SMS request settles.
SmsSettles(r) ==
    /\ otpPc[r] = "sms"
    /\ \E delivered \in BOOLEAN :
          /\ otpResponse' = [otpResponse EXCEPT ![r] =
                                IF delivered THEN OtpSentResponse ELSE OtpSendFailedResponse]
          /\ lastOp' = [op |-> "sms", key |-> otpTo[r], delivered |-> delivered]
    /\ otpPc' = [otpPc EXCEPT ![r] = "idle"]
    /\ UNCHANGED <<otpStore, otpTo, otpCount, issued>>
    /\ UNCHANGED <<scanVars, relayVars, ocrVars>>

\* Lines 188-206: /verify-otp runs without suspension.
VerifyOtp ==
    /\ otpCount < MaxOtpRequests
    /\ \E phoneNumber \in BodyPhones, otp \in ClientOtps :
          LET h == VerifyOtpHandler(otpStore, phoneNumber, otp) IN
          /\ otpStore' = h.store
          /\ issued' = [ph \in Phones |->
                           IF NormalizePhone(ph) \in DOMAIN otpStore \ DOMAIN h.store
                           THEN 0 ELSE issued[ph]]
          /\ lastOp' = [op |-> "verify", phone |-> phoneNumber,
                        sameCode |-> /\ phoneNumber.type = "string"
                                     /\ issued[phoneNumber.chars] # 0
                                     /\ otp \in SameCode(issued[phoneNumber.chars]),
                        matched |-> /\ ~Falsy(phoneNumber) /\ ~Falsy(otp)
                                    /\ ParseInt(otp) = OtpGet(otpStore, phoneNumber.chars),
                        stored |-> OtpGet(otpStore, phoneNumber.chars),
                        response |-> h.response]
    /\ otpCount' = otpCount + 1
    /\ UNCHANGED <<otpPc, otpTo, otpResponse>>
    /\ UNCHANGED <<scanVars, relayVars, ocrVars>>

OtpNext ==
    \/ \E r \in Requests : SendOtp(r)
    \/ \E r \in Requests : SendOtpNoPhone(r)
    \/ \E r \in Requests : SmsSettles(r)
    \/ VerifyOtp

ScanNext ==
    \/ \E r \in Requests : ArriveNoFile(r) /\ UNCHANGED <<relayVars, ocrVars, otpVars>>
    \/ \E r \in Requests : Arrive(r) /\ UNCHANGED <<relayVars, ocrVars, otpVars>>
    \/ \E r \in Requests : SubmitSettles(r) /\ UNCHANGED <<relayVars, ocrVars, otpVars>>
    \/ \E r \in Requests : PollSettles(r) /\ UNCHANGED <<relayVars, ocrVars, otpVars>>
    \/ \E r \in Requests : DelayElapses(r) /\ UNCHANGED <<relayVars, ocrVars, otpVars>>

vars == <<scanVars, relayVars, ocrVars, otpVars>>

Init == ScanInit({"r1"}) /\ RelayIdle /\ OcrIdle /\ OtpIdle

Next == ScanNext

Spec == Init /\ [][Next]_vars

RelaySpecInit == ScanInit({}) /\ RelayInit /\ OcrIdle /\ OtpIdle

OcrSpecInit == ScanInit({}) /\ RelayIdle /\ OcrInit /\ OtpIdle

OtpSpecInit == ScanInit({}) /\ RelayIdle /\ OcrIdle /\ OtpIdle

\* The OTP endpoints, with /send-otp requests suspended at their SMS request.
OtpSpec == OtpSpecInit /\ [][OtpNext]_vars

\* Concurrent /ocr-image requests.
OcrSpec == OcrSpecInit /\ [][OcrNext]_vars

RelaySpec == RelaySpecInit /\ [][RelayNext]_vars

\* The relay with every continuation eventually run: each upstream request and
\* each read completes or fails.
RelayFairInit == RelaySpecInit /\ upstream \in FairStreams

RelayFairSpec == RelayFairInit /\ [][RelayNext]_vars /\ WF_vars(RelayNext)

\* The relay with a client that may go away.
RelayCancelSpec == RelaySpecInit /\ [][RelayCancelNext]_vars

\* Two /scan-and-upload requests in flight at once, interleaved at their awaits.
ConcurrentInit == ScanInit(Requests) /\ RelayIdle /\ OcrIdle /\ OtpIdle

ConcurrentSpec == ConcurrentInit /\ [][Next]_vars

\* The scan with every continuation eventually run: each request to the verdict
\* service completes or fails and each timer fires.
FairSpec == Init /\ [][Next]_vars /\ WF_vars(Next)

(***************************************************************************)
(* Properties of the scan gate and of /scan-and-upload                     *)
(***************************************************************************)
\* The first terminal poll reply of request r is the clean verdict.
FirstVerdictClean(r) ==
    /\ terminalAt[r] >= 1
    /\ terminalReply[r].tag = "data"
    /\ terminalReply[r].scan_results.scan_all_result_a = "No Threat Detected"

\* The first terminal poll reply of request r is a verdict other than clean.
FirstVerdictRejects(r) ==
    /\ terminalAt[r] >= 1
    /\ terminalReply[r].tag = "data"
    /\ terminalReply[r].scan_results.scan_all_result_a # "No Threat Detected"

\* The submission of request r produced a data_id.
Submitted(r) ==
    submitReply[r].tag = "data" /\ submitReply[r].data_id \notin {"undefined", ""}

\* C1: if the verdict service answers no result or 'In Progress' on queries
\* 1..k-1 and 'No Threat Detected' on query k (1 <= k <= maxAttempts), the poll
\* loop has returned the clean result and the scan the clean outcome after
\* exactly k queries (and k-1 delays); query k+1 is never issued.
C1_CleanAfterExactlyKQueries ==
    \A r \in Requests :
        (FirstVerdictClean(r) /\ terminalAt[r] <= maxAttempts) =>
            /\ pc[r] = "responded"
            /\ scanResult[r] = CleanScan
            /\ outcome[r] = Returned([success |-> TRUE, error |-> "undefined", details |-> Undefined])
            /\ queries[r] = terminalAt[r]
            /\ attempts[r] = terminalAt[r] - 1
            /\ delays[r] = terminalAt[r] - 1

\* In Progress on query 1, clean on query 2: clean after exactly two queries.
C1_Witness ==
    \E r \in Requests :
        /\ FirstVerdictClean(r)
        /\ terminalAt[r] = 2
        /\ queries[r] = 2
        /\ pc[r] = "responded"
        /\ scanResult[r] = CleanScan

\* C2: if poll query k (1 <= k <= maxAttempts) is the first to report a result
\* that is present and neither 'No Threat Detected' nor 'In Progress', the scan
\* has returned the blocked outcome with the whole poll response as details at
\* attempt k: k queries, k-1 delays, no query k+1.
C2_BlockedImmediatelyAtK ==
    \A r \in Requests :
        (FirstVerdictRejects(r) /\ terminalAt[r] <= maxAttempts) =>
            /\ pc[r] = "responded"
            /\ scanResult[r] = [success |-> FALSE, error |-> "undefined", details |-> terminalReply[r]]
            /\ outcome[r] = Returned([success |-> FALSE, error |-> "File is infected!",
                                      details |-> terminalReply[r]])
            /\ queries[r] = terminalAt[r]
            /\ attempts[r] = terminalAt[r] - 1
            /\ delays[r] = terminalAt[r] - 1

\* A verdict other than 'Infected' blocks the scan at the third query.
C2_Witness ==
    \E r \in Requests :
        /\ FirstVerdictRejects(r)
        /\ terminalReply[r].scan_results.scan_all_result_a = "Suspicious"
        /\ terminalAt[r] = 3
        /\ pc[r] = "responded"
        /\ ~outcome[r].value.success
        /\ outcome[r].value.details = terminalReply[r]

\* C3: if every poll reply has no result field or 'In Progress', the poll loop
\* issues exactly maxAttempts queries and then returns the timeout result; no
\* scan ever issues more than maxAttempts queries.
C3_TimeoutAfterExactlyMaxAttempts ==
    \A r \in Requests :
        /\ queries[r] <= maxAttempts
        /\ (pc[r] = "responded" /\ Submitted(r) /\ terminalAt[r] = 0) =>
              /\ queries[r] = maxAttempts
              /\ delays[r] = maxAttempts
              /\ scanResult[r] = TimeoutScan
        /\ (scanResult[r] = TimeoutScan) => (queries[r] = maxAttempts /\ terminalAt[r] = 0)

\* The attempt budget ran out.
C3_Witness ==
    \E r \in Requests :
        /\ pc[r] = "responded"
        /\ terminalAt[r] = 0
        /\ scanResult[r] = TimeoutScan
        /\ queries[r] = maxAttempts

\* C4: an outcome caused by attempt-budget exhaustion is never delivered with
\* the infected label.
C4_TimeoutNotLabelledInfected ==
    \A r \in Requests :
        (pc[r] = "responded" /\ scanResult[r] = TimeoutScan) =>
            /\ outcome[r].value.error # "File is infected!"
            /\ response[r].body.error # "File is infected!"

\* C5: if the submission response carries no data_id, the scan has returned the
\* non-clean 'Failed to get scan ID' outcome and has issued no poll query.
C5_NoDataIdNoPolling ==
    \A r \in Requests :
        (submitReply[r].tag = "data" /\ ~Submitted(r)) =>
            /\ pc[r] = "responded"
            /\ queries[r] = 0
            /\ delays[r] = 0
            /\ scanId[r] = "undefined"
            /\ outcome[r] = Returned([success |-> FALSE, error |-> "Failed to get scan ID",
                                      details |-> submitReply[r]])

\* A submission answered without a data_id.
C5_Witness ==
    \E r \in Requests :
        /\ submitReply[r] = [tag |-> "data", data_id |-> "undefined"]
        /\ pc[r] = "responded"
        /\ ~outcome[r].value.success
        /\ queries[r] = 0

\* The outcome values the scan can resolve to.
ScanOutcomes(r) ==
    {[success |-> TRUE, error |-> "undefined", details |-> Undefined]}
    \cup {[success |-> FALSE, error |-> "File is infected!", details |-> d] :
             d \in PollData(scanId[r]) \cup {Undefined}}
    \cup {[success |-> FALSE, error |-> "Failed to get scan ID", details |-> d] : d \in SubmitData(r)}
    \cup {[success |-> FALSE, error |-> "Error scanning file.", details |-> e] : e \in FetchErrors}

\* C6: no exception escapes scanFileWithMetadefender: whenever the scan has
\* settled it has returned one outcome value, and a failed submission request,
\* poll request or response decoding gives the 'Error scanning file.' outcome.
C6_NoExceptionEscapes ==
    \A r \in Requests :
        /\ ~outcome[r].threw
        /\ pc[r] = "responded" => outcome[r].value \in ScanOutcomes(r)
        /\ submitReply[r].tag = "error" =>
              outcome[r].value = [success |-> FALSE, error |-> "Error scanning file.",
                                  details |-> submitReply[r]]
        /\ terminalReply[r].tag = "error" =>
              outcome[r].value = [success |-> FALSE, error |-> "Error scanning file.",
                                  details |-> terminalReply[r]]

\* The second poll request failed and the scan returned an outcome.
C6_Witness ==
    \E r \in Requests :
        /\ terminalReply[r] = ErrorValue("SyntaxError")
        /\ terminalAt[r] = 2
        /\ pc[r] = "responded"
        /\ outcome[r] = Returned([success |-> FALSE, error |-> "Error scanning file.",
                                  details |-> ErrorValue("SyntaxError")])

\* C7: /scan-and-upload answers 200 {success:true} only when the scan outcome
\* is clean; every non-clean outcome is answered 400 with the outcome as body;
\* 500 is sent only when the handler itself failed (deleting the staged file).
C7_SuccessOnlyOnClean ==
    \A r \in Requests :
        pc[r] = "responded" =>
            /\ response[r].status \in {200, 400, 500}
            /\ response[r].status = 200 =>
                  (scanResult[r] = CleanScan /\ outcome[r].value.success /\ response[r] = SuccessResponse)
            /\ ~outcome[r].value.success => response[r] = [status |-> 400, body |-> outcome[r].value]
            /\ response[r].status = 500 =>
                  (unlinkFailed[r] /\ response[r] = InternalErrorResponse)

\* A timed-out scan answered 400 with the outcome.
C7_Witness ==
    \E r \in Requests :
        /\ pc[r] = "responded"
        /\ scanResult[r] = TimeoutScan
        /\ response[r].status = 400
        /\ response[r].body = outcome[r].value

\* C8 as stated: once the response has been sent the staged file no longer exists.
C8_StagedFileGoneAfterResponse ==
    \A r \in Requests : pc[r] = "responded" => PathOf(r) \notin files

\* C8 amended: on every path the handler has called unlinkSync on the staged
\* path exactly once before the response, and the staged file still exists
\* afterwards exactly when that call threw.
C8_StagedFileGoneUnlessUnlinkFailed ==
    \A r \in Requests :
        pc[r] = "responded" =>
            /\ unlinks[r] = 1
            /\ PathOf(r) \in files <=> unlinkFailed[r]

\* A blocked upload was answered and its staged file is gone.
C8_Witness ==
    \E r \in Requests :
        /\ pc[r] = "responded"
        /\ FirstVerdictRejects(r)
        /\ response[r].status = 400
        /\ unlinks[r] = 1
        /\ PathOf(r) \notin files

(***************************************************************************)
(* Properties of the relay                                                 *)
(***************************************************************************)
TokenTexts(frames) ==
    LET toks == SelectSeq(frames, LAMBDA f : f.kind = "Token") IN
    [i \in 1..Len(toks) |-> toks[i].text]

HasError(frames) == \E i \in DOMAIN frames : frames[i].kind = "Error"

NewlineTerminated(bytes) == bytes = <<>> \/ bytes[Len(bytes)] = Newline

\* The lines of the whole upstream stream, decoded in one piece.
UpstreamLines == Split(DecodeBytes(<<>>, upstream).text)

\* The frames the upstream stream yields when it arrives as one single chunk.
OneChunkFrames == ProcessLines(Numbered(CompleteLines(UpstreamLines), 0)).frames

\* C9: for a newline-terminated upstream stream, the Tokens written by a relay
\* that ran to the end (sentinel or end of stream) are those of the stream
\* delivered as one chunk, whatever the chunking was; while reading, the Tokens
\* written so far are a prefix of them.
C9_TokensIndependentOfChunking ==
    \A got \in {TokenTexts(written)} :
    \A expected \in {TokenTexts(OneChunkFrames)} :
        /\ (rpc = "closed" /\ NewlineTerminated(upstream) /\ ~HasError(written)) => got = expected
        /\ (rpc \in {"reading", "closed"}) =>
               (Len(got) <= Len(expected) /\ got = SubSeq(expected, 1, Len(got)))

\* A stream of one event line, cut inside the line, gave its one Token.
C9_Witness ==
    /\ rpc = "closed"
    /\ NewlineTerminated(upstream)
    /\ Len(UpstreamLines) = 2
    /\ fragmented
    /\ TokenTexts(written) = << <<"e", "b">> >>

\* C10: Tokens are written in the order of their source lines: each written
\* Token carries the content of its upstream line, and of any two written
\* Tokens the earlier written one comes from the earlier line.
C10_TokensInUpstreamOrder ==
    \A lines \in {UpstreamLines} :
        /\ \A i \in DOMAIN written :
              written[i].kind = "Token" =>
                  /\ written[i].line \in 1..(Len(lines) - 1)
                  /\ LineEffect(lines[written[i].line]) = [kind |-> "Token", text |-> written[i].text]
        /\ \A i, j \in DOMAIN written :
              (i < j /\ written[i].kind = "Token" /\ written[j].kind = "Token") =>
                  written[i].line < written[j].line

\* Tokens of three lines, written while handling different chunks.
C10_Witness ==
    /\ spread
    /\ Len(TokenTexts(written)) = 3
    /\ written[1].line < written[3].line

HasDone(frames) == \E i \in DOMAIN frames : frames[i].kind = "Done"

\* Index of the first sentinel line among the complete lines, or one past them.
FirstSentinel(lines) ==
    LET ks == {k \in 1..(Len(lines) - 1) : LineEffect(lines[k]).kind = "Done"} IN
    IF ks = {} THEN Len(lines) ELSE CHOOSE k \in ks : \A j \in ks : k <= j

\* C11: a data line whose payload does not decode (or has no usable delta)
\* writes nothing and does not end the relay: every Token line the loop has
\* taken before the sentinel has its Token written, no frame comes from any
\* other line, an error frame is written only for a transport failure, and the
\* response is ended only by the sentinel, the end of the stream or a failure.
C11_MalformedLineSkipped ==
    \A lines \in {UpstreamLines} :
        /\ \A k \in 1..linesRead :
              (k <= FirstSentinel(lines) /\ LineEffect(lines[k]).kind = "Token") =>
                  \E i \in DOMAIN written :
                      written[i] = [kind |-> "Token", text |-> LineEffect(lines[k]).text, line |-> k]
        /\ \A i \in DOMAIN written :
              written[i].kind = "Token" => ~IsMalformed(lines[written[i].line])
        /\ HasError(written) <=> cause = "failure"
        /\ ended => (HasDone(written) \/ cause = "failure" \/ pos = Len(upstream))

\* A malformed line, then a valid one: one Token, from the second line, and the
\* relay went on to the end of the stream.
C11_Witness ==
    /\ Len(UpstreamLines) = 3
    /\ IsMalformed(UpstreamLines[1])
    /\ written = <<[kind |-> "Token", text |-> <<"a">>, line |-> 2]>>
    /\ rpc = "closed"
    /\ cause = "eof"

\* C12: when a complete upstream line is the sentinel, the Done frame is
\* written once, for the first sentinel line, the response is ended at once
\* and nothing is written after it, whatever follows in the chunk, in the
\* buffer or in later chunks.
C12_DoneOnceThenSilence ==
    \A lines \in {UpstreamLines} :
        /\ \A i \in DOMAIN written :
              written[i].kind = "Done" =>
                  /\ i = Len(written)
                  /\ written[i].line = FirstSentinel(lines)
                  /\ ended
                  /\ rpc = "closed"
        /\ Cardinality({i \in DOMAIN written : written[i].kind = "Done"}) <= 1
        /\ (linesRead >= FirstSentinel(lines) /\ FirstSentinel(lines) < Len(lines)) =>
               (HasDone(written) /\ rpc = "closed")

\* The sentinel was followed by a Token line in the same chunk and by bytes
\* that were never read; Done is the last frame.
C12_Witness ==
    /\ HasDone(written)
    /\ written[Len(written)].kind = "Done"
    /\ linesRead > written[Len(written)].line
    /\ LineEffect(UpstreamLines[written[Len(written)].line + 1]).kind = "Token"
    /\ pos < Len(upstream)
    /\ rpc = "closed"

\* Kind and content of the frames, without the line numbers.
KindsAndTexts(frames) == [i \in 1..Len(frames) |-> [kind |-> frames[i].kind, text |-> frames[i].text]]

\* The frames of the whole stream when its unterminated last piece is handled
\* like a complete line.
FramesWithTrailingFragment == ProcessLines(Numbered(UpstreamLines, 0)).frames

\* C13: when the upstream ends without a sentinel line, the frames written
\* before the response is ended include the one of the trailing fragment left
\* in the buffer, handled exactly as a complete line.
C13_TrailingFragmentProcessed ==
    cause = "eof" => KindsAndTexts(written) = KindsAndTexts(FramesWithTrailingFragment)

\* C14: on a connection closed without an error frame, the last frame written
\* before the response is ended is the Done frame.
C14_DoneIsLastFrame ==
    (ended /\ ~HasError(written)) => (written # <<>> /\ written[Len(written)].kind = "Done")

\* C15: once the upstream request has been issued the response is eventually
\* ended; after an upstream failure (request, status or read) the error frame
\* is the last frame written and the response is ended; a relay that has left
\* its read loop has ended the response.
C15_ChannelEventuallyClosed ==
    /\ (rpc = "fetching") ~> ended
    /\ [](cause = "failure" =>
            (ended /\ written # <<>> /\ written[Len(written)] = ErrorFrame))
    /\ [](rpc \notin {"idle", "arriving", "rejected", "fetching", "reading"} => ended)

\* A read failed in mid-stream, after a Token: error frame, then the end.
C15_Witness ==
    /\ cause = "failure"
    /\ pos > 0
    /\ ended
    /\ Len(written) = 2
    /\ written[1].kind = "Token"
    /\ written[2] = ErrorFrame

\* C16: at most one Done or Error frame is ever written, never both, and it is
\* the last frame: no Token follows it.
C16_AtMostOneTerminalFrame ==
    /\ Cardinality({i \in DOMAIN written : written[i].kind \in {"Done", "Error"}}) <= 1
    /\ \A i \in DOMAIN written :
          written[i].kind \in {"Done", "Error"} => i = Len(written)
    /\ ~(HasDone(written) /\ HasError(written))

\* Two Tokens, then the one terminal frame.
C16_Witness ==
    /\ Len(written) = 3
    /\ written[1].kind = "Token"
    /\ written[2].kind = "Token"
    /\ written[3].kind \in {"Done", "Error"}
    /\ ended

\* C17: after the client has disconnected no Token, Done or Error write is
\* attempted on the connection.
C17_NoWriteAfterDisconnect ==
    lateWrites = 0

\* C18: in both upload flows a request calls the delete operation on its
\* staged path at most once and never uses the path after having deleted it,
\* also when an exception is raised after the file was deleted.
C18_DeletedAtMostOnce ==
    \A r \in Requests :
        /\ unlinks[r] <= 1
        /\ ocrUnlinks[r] <= 1
        /\ ~ocrLateAccess[r]

\* C19: a failing delete of the staged file never changes what the client
\* receives: a scan that returned clean is answered 200 success, and an
\* extraction that produced text is answered with that text.
C19_CleanupFailureNotSurfaced ==
    \A r \in Requests :
        /\ (pc[r] = "responded" /\ scanResult[r] = CleanScan) => response[r] = SuccessResponse
        /\ (opc[r] \in {"responded", "rejected"} /\ ocrReply[r] \in OcrReplies
              /\ ocrReply[r].tag = "data" /\ ocrReply[r].ParsedText.type = "string"
              /\ ocrReply[r].ParsedText.chars # <<>>)
             => ocrResponse[r] = OcrTextResponse(ocrReply[r].ParsedText)

\* Everything the handler of request r holds or owns: its locals, its response
\* and the existence of its staged file.
Local(r) ==
    <<pc[r], scanId[r], attempts[r], queries[r], delays[r], scanResult[r], outcome[r],
      response[r], unlinks[r], unlinkFailed[r], PathOf(r) \in files>>

\* The outcome the replies given to request r alone determine.
OwnOutcome(r) ==
    IF submitReply[r].tag = "error" THEN scanCatch(submitReply[r])
    ELSE IF ~Truthy(submitReply[r].data_id) THEN Returned(NoScanId(submitReply[r]))
    ELSE IF terminalAt[r] = 0 THEN scanOutcome(TimeoutScan)
    ELSE IF terminalReply[r].tag = "error" THEN scanCatch(terminalReply[r])
    ELSE IF terminalReply[r].scan_results.scan_all_result_a = "No Threat Detected"
    THEN scanOutcome(CleanScan)
    ELSE scanOutcome(BlockedScan(terminalReply[r]))

\* C21: with two /scan-and-upload requests interleaved at their awaits, each
\* request polls only the scan id of its own submission, gets the outcome its
\* own replies determine, keeps its staged file until it deletes it itself, and
\* no step of one request changes the counter, outcome, response or staged
\* file of the other.
C21_RequestsIndependent ==
    /\ [](\A r \in Requests :
            /\ scanId[r] \in {"undefined", TicketOf(r)}
            /\ pc[r] \in {"submit", "poll", "delay"} => PathOf(r) \in files
            /\ pc[r] = "responded" => outcome[r] = OwnOutcome(r)
            /\ pc[r] = "responded" => (PathOf(r) \in files <=> unlinkFailed[r]))
    /\ [][\A r, q \in Requests :
            (r # q /\ Local(r)' # Local(r)) => Local(q)' = Local(q)]_vars

\* One request was answered 200 while the other, already at its third query
\* or later, is still polling with its staged file in place.
C21_Witness ==
    \E r, q \in Requests :
        /\ r # q
        /\ pc[r] = "responded" /\ response[r] = SuccessResponse /\ queries[r] >= 2
        /\ pc[q] = "poll" /\ queries[q] >= 3 /\ PathOf(q) \in files

\* C22: every /ocr-image request that carried a file and whose handler has
\* finished has received a response, and its staged file no longer exists, on
\* every path of the handler.
C22_ExtractAndRelease ==
    \A r \in Requests :
        opc[r] \in {"responded", "rejected"} =>
            /\ ocrResponse[r] # NoResponse
            /\ PathOf(r) \notin files

\* C23: when poll query k fails in transport or cannot be decoded, polling
\* stops there: k queries and k-1 delays were performed in all, and the scan
\* returns the non-clean "Error scanning file." outcome carrying the error,
\* which the handler answers with 400.
C23_PollFailureStopsPolling ==
    \A r \in Requests :
        (terminalAt[r] > 0 /\ terminalReply[r].tag = "error") =>
            /\ pc[r] = "responded"
            /\ queries[r] = terminalAt[r]
            /\ delays[r] = terminalAt[r] - 1
            /\ attempts[r] = terminalAt[r] - 1
            /\ outcome[r] = Returned([success |-> FALSE, error |-> "Error scanning file.",
                                      details |-> terminalReply[r]])
            /\ response[r] = [status |-> 400, body |-> outcome[r].value]

\* The third poll query failed while 17 attempts of the budget remained.
C23_Witness ==
    \E r \in Requests :
        /\ pc[r] = "responded"
        /\ terminalAt[r] = 3
        /\ terminalReply[r] \in FetchErrors
        /\ queries[r] = 3

\* C24: a /verify-otp called with a phone number exactly as it was submitted to
\* the last /send-otp for it, and with the code that /send-otp stored, answers
\* verified:true, whatever the form of the number.
C24_OtpRoundTrip ==
    (lastOp.op = "verify" /\ lastOp.phone.chars # <<>> /\ lastOp.sameCode)
        => lastOp.response = OtpVerifiedResponse

\* C25: a code leaves the store only through a successful /verify-otp for its
\* number and changes only through a /send-otp for that number; a verification
\* succeeds exactly when the store holds the code sent, removes it, and a
\* failed verification or a settled SMS request leaves the store as it was.
C25_OtpSingleUseAndRetention ==
    /\ [](lastOp.op = "verify" =>
            /\ lastOp.response = OtpVerifiedResponse <=> (lastOp.stored # 0 /\ lastOp.matched)
            /\ lastOp.response = OtpVerifiedResponse => lastOp.phone.chars \notin DOMAIN otpStore
            /\ (lastOp.response # OtpVerifiedResponse /\ lastOp.stored # 0)
                  => OtpGet(otpStore, lastOp.phone.chars) = lastOp.stored)
    /\ [][/\ lastOp'.op \in {"sms", "send-rejected"} => otpStore' = otpStore
          /\ \A k \in DOMAIN otpStore :
                /\ k \notin DOMAIN otpStore' =>
                      (/\ lastOp'.op = "verify"
                       /\ lastOp'.phone.chars = k
                       /\ lastOp'.response = OtpVerifiedResponse)
                /\ (k \in DOMAIN otpStore' /\ otpStore'[k] # otpStore[k]) =>
                      (lastOp'.op = "send" /\ lastOp'.key = k)]_vars

\* A code whose SMS could not be sent was verified afterwards and is gone.
C25_Witness ==
    /\ lastOp.op = "verify"
    /\ lastOp.response = OtpVerifiedResponse
    /\ lastOp.phone.chars \notin DOMAIN otpStore
    /\ \E r \in Requests :
          /\ otpPc[r] = "idle"
          /\ otpResponse[r] = OtpSendFailedResponse
          /\ otpTo[r] = lastOp.phone.chars

\* C20: every scan terminates: once the submission has been issued the scan
\* eventually returns and the handler responds, and no scan ever issues more
\* than maxAttempts poll queries or starts more than maxAttempts delays.
C20_ScanTerminates ==
    /\ \A r \in Requests : (pc[r] = "submit") ~> (pc[r] = "responded")
    /\ [](\A r \in Requests :
            /\ queries[r] <= maxAttempts
            /\ delays[r] <= maxAttempts
            /\ attempts[r] <= maxAttempts
            /\ pc[r] \in {"poll", "delay"} => attempts[r] < maxAttempts)

\* A scan that got its verdict on the last attempt of the budget.
C20_Witness ==
    \E r \in Requests :
        /\ pc[r] = "responded"
        /\ terminalAt[r] = maxAttempts
        /\ queries[r] = maxAttempts
        /\ delays[r] = maxAttempts - 1

====
